---- MODULE Spec2Model ----
(***************************************************************************)
(* Model of the ecitko water-meter image service: the upload handler of    *)
(* main.py (streaming ingestion with size/format gates and cleanup), the   *)
(* repository calls of database.py it uses, and the OCR worker task of     *)
(* worker.py together with the task-status endpoint.                       *)
(***************************************************************************)
EXTENDS Integers, Sequences, FiniteSets, TLC

VARIABLES
    clock,        \* datetime.now() at second granularity
    files,        \* the upload directory: stored path -> [size, owner]
    images,       \* table images: row id = position, [water_meter_id, image_url]
    queue,        \* broker queue 'celery': sequence of [task_id, image_id]
    nextToken,    \* source of uuid4 values
    nextTaskId,   \* source of Celery task ids
    uploads,      \* number of upload requests received so far
    interference, \* some request opened, wrote or unlinked a file it did not create
    req,          \* per client: the locals of its running upload_image call
    worker,       \* the Celery worker process: idle, or busy with a job
    ocr_results,  \* table ocr_results: sequence of rows
    taskMeta,     \* Celery result backend: task id -> [state, result]
    arg,          \* a call of a pure function: the function and its argument
    ret           \* the value that call returned, NotCalled before it ran

vars == <<clock, files, images, queue, nextToken, nextTaskId, uploads,
          interference, req, worker, ocr_results, taskMeta, arg, ret>>

workerVars == <<worker, ocr_results, taskMeta>>
callVars == <<arg, ret>>

----------------------------------------------------------------------------
(* Bounds of the model *)

MaxUploads == 2
MaxClock == 1
MaxTasks == 2

Clients == {"c1", "c2"}

----------------------------------------------------------------------------
(* Program constants, main.py:44-47 *)

ALLOWED_EXTENSIONS ==
    { <<"j", "p", "e", "g">>, <<"j", "p", "g">>, <<"p", "n", "g">> }
MAX_FILE_SIZE == 5 * 1024 * 1024
CHUNK_SIZE == 1024 * 1024

JPEG_MAGIC == <<255, 216, 255>>
PNG_MAGIC == <<137, 80, 78, 71, 13, 10, 26, 10>>
MIN_SNIFF_BYTES == 12

----------------------------------------------------------------------------
(* Characters and the Content Validator (pure functions) *)

UpperCase == <<"A", "B", "C", "D", "E", "F", "G", "H", "I", "J", "K", "L", "M",
               "N", "O", "P", "Q", "R", "S", "T", "U", "V", "W", "X", "Y", "Z">>
LowerCase == <<"a", "b", "c", "d", "e", "f", "g", "h", "i", "j", "k", "l", "m",
               "n", "o", "p", "q", "r", "s", "t", "u", "v", "w", "x", "y", "z">>
DigitChars == {"0", "1", "2", "3", "4", "5", "6", "7", "8", "9"}

Range(s) == { s[i] : i \in DOMAIN s }

\* regex class \w
IsWordChar(c) == c \in Range(UpperCase) \cup Range(LowerCase) \cup DigitChars \cup {"_"}
\* regex class \s
IsSpaceChar(c) == c \in {" ", "\t", "\n", "\r", "\f"}

\* str.lower() on one character
Lower(c) ==
    IF \E i \in DOMAIN UpperCase : UpperCase[i] = c
    THEN LowerCase[CHOOSE i \in DOMAIN UpperCase : UpperCase[i] = c]
    ELSE c

\* position of the last occurrence of c in s, 0 when there is none
LastIndexOf(s, c) ==
    IF \E i \in DOMAIN s : s[i] = c
    THEN CHOOSE i \in DOMAIN s : s[i] = c /\ \A j \in DOMAIN s : s[j] = c => j <= i
    ELSE 0

\* os.path.basename
Basename(filename) ==
    SubSeq(filename, LastIndexOf(filename, "/") + 1, Len(filename))

\* re.sub(r'[^\w\s.-]', '', filename)
KeepChar(c) == IsWordChar(c) \/ IsSpaceChar(c) \/ c = "." \/ c = "-"
StripSpecial(filename) == SelectSeq(filename, KeepChar)

\* filename.replace(' ', '_')
ReplaceSpaces(filename) ==
    [i \in DOMAIN filename |-> IF filename[i] = " " THEN "_" ELSE filename[i]]

sanitize_filename(filename) == ReplaceSpaces(StripSpecial(Basename(filename)))

get_file_extension(filename) ==
    IF LastIndexOf(filename, ".") = 0
    THEN <<>>
    ELSE LET ext == SubSeq(filename, LastIndexOf(filename, ".") + 1, Len(filename))
         IN  [i \in DOMAIN ext |-> Lower(ext[i])]

\* an extension check that forgets .lower()
is_allowed_file_case_sensitive(filename) ==
    /\ LastIndexOf(filename, ".") # 0
    /\ SubSeq(filename, LastIndexOf(filename, ".") + 1, Len(filename))
           \in ALLOWED_EXTENSIONS

is_allowed_file(filename) == get_file_extension(filename) \in ALLOWED_EXTENSIONS

\* A chunk of the body: its length and its first bytes (at most MIN_SNIFF_BYTES
\* of them are represented, the rest of the chunk is never inspected).
NoChunk == [len |-> 0, head |-> <<>>]

Min(a, b) == IF a < b THEN a ELSE b

Chunk(n, bytes) == [len |-> n, head |-> SubSeq(bytes, 1, Min(n, Len(bytes)))]

\* file_content[0:k]
Slice(content, k) == SubSeq(content.head, 1, Min(k, Len(content.head)))

\* a signature check without the length test
validate_image_content_no_length(file_content) ==
    Slice(file_content, 3) = JPEG_MAGIC \/ Slice(file_content, 8) = PNG_MAGIC

validate_image_content(file_content) ==
    IF file_content.len < MIN_SNIFF_BYTES THEN FALSE
    ELSE IF Slice(file_content, 3) = JPEG_MAGIC THEN TRUE
    ELSE IF Slice(file_content, 8) = PNG_MAGIC THEN TRUE
    ELSE FALSE

----------------------------------------------------------------------------
(* Inputs *)

FileNames ==
    { <<>>,
      <<"a", ".", "j", "p", "g">>,
      <<"a", ".", "P", "n", "G">>,
      <<".", ".", "/", "b", ".", "J", "P", "E", "G">>,
      <<"a", ".", "j", "p", "@", "g">>,
      <<"a", ".", "t", "x", "t">>,
      <<"a">>,
      <<"a", ".">>,
      <<"a", ".", "j", "p", "g", "/", "x">>,
      <<"a", ".", "j", " ", "p", "g">>,
      <<"a", ".", "j", "p", "g", "\n">> }

\* table water_meters: 7 is active, 8 is deactivated, any other id is unknown
WaterMeters == { [id |-> 7, is_active |-> TRUE], [id |-> 8, is_active |-> FALSE] }
MeterIds == {7, 8, 999}

\* leading bytes a body may start with
JpegHead == <<255, 216, 255, 224, 0, 16, 74, 70, 73, 70, 0, 1>>
PngHead == <<137, 80, 78, 71, 13, 10, 26, 10, 0, 0, 0, 13>>
NearPngHead == <<137, 80, 78, 71, 13, 10, 26, 11, 0, 0, 0, 13>>
ZeroHead == <<0, 0, 0, 0, 0, 0, 0, 0, 0, 0, 0, 0>>
Heads == { JpegHead, PngHead, NearPngHead, ZeroHead }

\* body lengths in bytes; an endless body never reaches the end of the stream
BodyLens == {0, 11, 12, MAX_FILE_SIZE, MAX_FILE_SIZE + 1}

Body(h, n, e) ==
    [head |-> SubSeq(h, 1, Min(n, Len(h))), len |-> n, endless |-> e]
Bodies ==
    { Body(h, n, FALSE) : h \in Heads, n \in BodyLens }
        \cup { Body(h, CHUNK_SIZE, TRUE) : h \in Heads }

\* the request body as the handler sees it: nothing is known before the first read
Unread == [started |-> FALSE, endless |-> FALSE, left |-> 0, head |-> <<>>]

----------------------------------------------------------------------------
(* Responses *)

OkMessage == "Image uploaded successfully"
DetailNoFilename == "Filename is missing or empty"
DetailBadFormat == "Invalid file format. Allowed formats: JPEG, JPG, PNG"
DetailNoMeter == "Water meter with ID not found or inactive"
DetailTooLarge == "File size exceeds maximum allowed size of 5.0MB"
DetailSaveFailed == "Internal server error occurred while processing upload"
DetailBadContent == "File content is not a valid image"
DetailDbFailed == "Failed to save image record to database"
DetailUnhandled == "Internal Server Error"

NoPath == <<>>
NoResponse == [status |-> 0, detail |-> ""]

ErrorResponse(code, text) == [status |-> code, detail |-> text]

IdleReq ==
    [ pc |-> "idle", id |-> 0, filename |-> <<>>, waterMeterId |-> 0,
      extension |-> <<>>, file_path |-> NoPath, file_size |-> 0,
      first_chunk |-> NoChunk, stream |-> Unread, meter_checked |-> FALSE,
      image_id |-> 0, task_id |-> 0, response |-> NoResponse ]

----------------------------------------------------------------------------
(* File system and repository helpers *)

Exists(p) == p \in DOMAIN files

\* a cleanup that forgets the unlink
UnlinkSkipped(p) == files

\* if file_path.exists(): file_path.unlink()
Unlink(p) == [q \in (DOMAIN files) \ {p} |-> files[q]]

\* a request acts on a stored file that another request created
Foreign(r, p) == Exists(p) /\ files[p].owner # req[r].id

\* the query without its is_active condition
water_meter_exists_any(water_meter_id) ==
    \E m \in WaterMeters : m.id = water_meter_id

\* Database.water_meter_exists: SELECT ... WHERE id = %s AND is_active = 1
water_meter_exists(water_meter_id) ==
    \E m \in WaterMeters : m.id = water_meter_id /\ m.is_active

\* a stored name without the random token
NewFilenameNoToken(waterMeterId, timestamp, unique_id, extension) ==
    <<waterMeterId, timestamp, 0, extension>>

\* f"{waterMeterId}_{timestamp}_{unique_id}.{extension}"
NewFilename(waterMeterId, timestamp, unique_id, extension) ==
    <<waterMeterId, timestamp, unique_id, extension>>

\* raise HTTPException / return: the call ends with this response
Respond(r, resp) ==
    req' = [req EXCEPT ![r].pc = "done", ![r].response = resp]

\* failure after the path was generated: unlink the file if it exists, respond
FailAndUnlink(r, resp) ==
    /\ files' = Unlink(req[r].file_path)
    /\ interference' = (interference \/ Foreign(r, req[r].file_path))
    /\ Respond(r, resp)

----------------------------------------------------------------------------
(* upload_image, main.py:125-270 *)

\* lines 147-160: filename present, sanitize, extension gate
StartUpload(r, filename, waterMeterId) ==
    /\ req[r].pc = "idle"
    /\ uploads < MaxUploads
    /\ uploads' = uploads + 1
    /\ LET base == [IdleReq EXCEPT !.id = uploads + 1, !.filename = filename,
                                   !.waterMeterId = waterMeterId]
       IN  IF filename = <<>>
           THEN req' = [req EXCEPT ![r] =
                    [base EXCEPT !.pc = "done",
                                 !.response = ErrorResponse(400, DetailNoFilename)]]
           ELSE IF ~ is_allowed_file(sanitize_filename(filename))
           THEN req' = [req EXCEPT ![r] =
                    [base EXCEPT !.pc = "done",
                                 !.response = ErrorResponse(400, DetailBadFormat)]]
           ELSE req' = [req EXCEPT ![r] = [base EXCEPT !.pc = "lookup"]]
    /\ UNCHANGED <<clock, files, images, queue, nextToken, nextTaskId, interference>>
    /\ UNCHANGED <<workerVars, callVars>>

\* lines 162-167: the meter must exist and be active
CheckMeter(r) ==
    /\ req[r].pc = "lookup"
    /\ \/ /\ water_meter_exists(req[r].waterMeterId)
          /\ req' = [req EXCEPT ![r].pc = "open", ![r].meter_checked = TRUE]
       \/ /\ ~ water_meter_exists(req[r].waterMeterId)
          /\ req' = [req EXCEPT ![r].pc = "done", ![r].meter_checked = TRUE,
                                ![r].response = ErrorResponse(404, DetailNoMeter)]
       \/ \* database.py:79-81: the query raises, nothing in upload_image catches it
          /\ req' = [req EXCEPT ![r].pc = "done", ![r].meter_checked = TRUE,
                                ![r].response = ErrorResponse(500, DetailUnhandled)]
    /\ UNCHANGED <<clock, files, images, queue, nextToken, nextTaskId, uploads,
                   interference>>
    /\ UNCHANGED <<workerVars, callVars>>

\* lines 169-184: generate the stored name and open it for writing ("wb")
OpenFile(r) ==
    /\ req[r].pc = "open"
    /\ LET extension == get_file_extension(sanitize_filename(req[r].filename))
           file_path == NewFilename(req[r].waterMeterId, clock, nextToken, extension)
       IN  /\ nextToken' = nextToken + 1
           /\ \/ \* open() creates the file, or truncates an existing one
                 /\ files' = [q \in (DOMAIN files) \cup {file_path} |->
                                IF q = file_path
                                THEN [size |-> 0,
                                      owner |-> IF q \in DOMAIN files
                                                THEN files[q].owner ELSE req[r].id]
                                ELSE files[q]]
                 /\ interference' =
                        (interference \/ (file_path \in DOMAIN files
                                          /\ files[file_path].owner # req[r].id))
                 /\ req' = [req EXCEPT ![r].pc = "read", ![r].extension = extension,
                                       ![r].file_path = file_path]
              \/ \* open() raises OSError: lines 209-216
                 /\ files' = Unlink(file_path)
                 /\ interference' = (interference \/ file_path \in DOMAIN files)
                 /\ req' = [req EXCEPT ![r].pc = "done", ![r].extension = extension,
                                       ![r].file_path = file_path,
                                       ![r].response =
                                           ErrorResponse(500, DetailSaveFailed)]
    /\ UNCHANGED <<clock, images, queue, nextTaskId, uploads>>
    /\ UNCHANGED <<workerVars, callVars>>

\* await file.read(CHUNK_SIZE): at most CHUNK_SIZE bytes, fewer only at the end
ReadLen(stream) ==
    IF stream.endless THEN CHUNK_SIZE ELSE Min(CHUNK_SIZE, stream.left)

\* a size check against a limit that is too high
TooLargeWrongLimit(file_size) == file_size > 2 * MAX_FILE_SIZE

\* lines 194-196: the size check made on every chunk before it is written
TooLarge(file_size) == file_size > MAX_FILE_SIZE

\* lines 185-208: one iteration of the streaming loop; body is the request
\* body, which the handler meets at its first read
ReadChunk(r, body) ==
    /\ req[r].pc = "read"
    /\ req[r].stream.started =>
          /\ body.head = req[r].stream.head
          /\ body.endless = req[r].stream.endless
          /\ body.len = IF body.endless THEN CHUNK_SIZE
                        ELSE req[r].file_size + req[r].stream.left
    /\ LET stream == IF req[r].stream.started THEN req[r].stream
                     ELSE [started |-> TRUE, endless |-> body.endless,
                           left |-> body.len, head |-> body.head]
           n == ReadLen(stream)
           chunk == Chunk(n, stream.head)
           first_chunk == IF req[r].first_chunk = NoChunk
                          THEN chunk ELSE req[r].first_chunk
           file_size == req[r].file_size + n
           rest == [stream EXCEPT !.left = IF stream.endless THEN 0 ELSE @ - n]
           p == req[r].file_path
       IN  \/ \* file.read returns b"": end of the stream, the file is closed
              /\ n = 0
              /\ req' = [req EXCEPT ![r].pc = "sniff", ![r].stream = rest]
              /\ UNCHANGED <<files, interference>>
           \/ \* the chunk makes the body too large: lines 196-201 and 205-208
              /\ n > 0
              /\ TooLarge(file_size)
              /\ files' = Unlink(p)
              /\ interference' = (interference \/ Foreign(r, p))
              /\ req' = [req EXCEPT ![r].pc = "done", ![r].stream = rest,
                                    ![r].first_chunk = first_chunk,
                                    ![r].file_size = file_size,
                                    ![r].response =
                                        ErrorResponse(400, DetailTooLarge)]
           \/ \* line 203: f.write(chunk)
              /\ n > 0
              /\ ~ TooLarge(file_size)
              /\ files' = [q \in DOMAIN files |->
                             IF q = p THEN [files[q] EXCEPT !.size = @ + n]
                             ELSE files[q]]
              /\ interference' = (interference \/ Foreign(r, p))
              /\ req' = [req EXCEPT ![r].stream = rest,
                                    ![r].first_chunk = first_chunk,
                                    ![r].file_size = file_size]
           \/ \* the read or the write raises: lines 209-216
              /\ files' = Unlink(p)
              /\ interference' = (interference \/ Foreign(r, p))
              /\ req' = [req EXCEPT ![r].pc = "done", ![r].stream = stream,
                                    ![r].response =
                                        ErrorResponse(500, DetailSaveFailed)]
    /\ UNCHANGED <<clock, images, queue, nextToken, nextTaskId, uploads>>
    /\ UNCHANGED <<workerVars, callVars>>

\* lines 218-225: signature gate on the retained first chunk
SniffContent(r) ==
    /\ req[r].pc = "sniff"
    /\ IF req[r].first_chunk = NoChunk \/ ~ validate_image_content(req[r].first_chunk)
       THEN FailAndUnlink(r, ErrorResponse(400, DetailBadContent))
       ELSE /\ req' = [req EXCEPT ![r].pc = "insert"]
            /\ UNCHANGED <<files, interference>>
    /\ UNCHANGED <<clock, images, queue, nextToken, nextTaskId, uploads>>
    /\ UNCHANGED <<workerVars, callVars>>

\* lines 234-237 with Database.insert_image, database.py:83-105
InsertImage(r) ==
    /\ req[r].pc = "insert"
    /\ \/ \* INSERT and commit
          /\ images' = Append(images, [water_meter_id |-> req[r].waterMeterId,
                                       image_url |-> req[r].file_path])
          /\ req' = [req EXCEPT ![r].pc = "enqueue", ![r].image_id = Len(images) + 1]
          /\ UNCHANGED <<files, interference>>
       \/ \* the statement raises and is rolled back: lines 263-270
          /\ FailAndUnlink(r, ErrorResponse(500, DetailDbFailed))
          /\ UNCHANGED images
    /\ UNCHANGED <<clock, queue, nextToken, nextTaskId, uploads>>
    /\ UNCHANGED <<workerVars, callVars>>

\* a task sent with the meter id as its argument
OcrJobForMeter(r, task_id) ==
    [task_id |-> task_id, image_id |-> req[r].waterMeterId]

\* lines 245-249: send_task('ecitko_worker.ocr_task', args=[image_id])
OcrJob(r, task_id) == [task_id |-> task_id, image_id |-> req[r].image_id]

\* lines 244-262: send the OCR task, answer 200
EnqueueTask(r) ==
    /\ req[r].pc = "enqueue"
    /\ \/ /\ nextTaskId <= MaxTasks
          /\ queue' = Append(queue, OcrJob(r, nextTaskId))
          /\ nextTaskId' = nextTaskId + 1
          /\ req' = [req EXCEPT ![r].pc = "done", ![r].task_id = nextTaskId,
                                ![r].response = [status |-> 200, detail |-> OkMessage]]
          /\ UNCHANGED <<files, interference>>
       \/ \* send_task raises (broker unreachable): the same handler, lines 263-270
          /\ FailAndUnlink(r, ErrorResponse(500, DetailDbFailed))
          /\ UNCHANGED <<queue, nextTaskId>>
    /\ UNCHANGED <<clock, images, nextToken, uploads>>
    /\ UNCHANGED <<workerVars, callVars>>

\* the response has been sent; the client may issue its next request
Return(r) ==
    /\ req[r].pc = "done"
    /\ req' = [req EXCEPT ![r] = IdleReq]
    /\ UNCHANGED <<clock, files, images, queue, nextToken, nextTaskId, uploads,
                   interference>>
    /\ UNCHANGED <<workerVars, callVars>>

\* a second passes
Tick ==
    /\ clock < MaxClock
    /\ clock' = clock + 1
    /\ UNCHANGED <<files, images, queue, nextToken, nextTaskId, uploads,
                   interference, req>>
    /\ UNCHANGED <<workerVars, callVars>>


----------------------------------------------------------------------------
(* The OCR worker, worker.py:33-148 *)

\* what the OCR engine returned: the recognised text and the token confidences
NoOutput == [text |-> <<>>, conf |-> <<>>]

IdleWorker == [pc |-> "idle", task_id |-> 0, image_id |-> 0, out |-> NoOutput]

ErrImageNotFound == "Image with ID not found"
ErrFileNotFound == "Image file not found"
ErrOcrFailed == "cannot identify image file"
ErrDatabase == "MySQL connection not available"
ErrMissingEnv == "Missing required database environment variables"
Exceptions == {ErrOcrFailed, ErrDatabase}

DigitSeq == <<"0", "1", "2", "3", "4", "5", "6", "7", "8", "9">>

\* what the OCR engine may return: the recognised text and the token confidences
OcrOutputs ==
    { [text |-> <<"R", ":", " ", "0", "1", "2", "3", " ", "m", "3">>,
       conf |-> <<90, 0, 80>>],
      [text |-> <<"-", "-", "-">>, conf |-> <<>>] }

\* ''.join(re.findall(r'\d+', ocr_result)): the digits of the text, in order
JoinedDigits(text) == SelectSeq(text, LAMBDA c : c \in Range(DigitSeq))

\* str.strip()
RECURSIVE StripLeft(_)
StripLeft(text) ==
    IF text # <<>> /\ IsSpaceChar(Head(text)) THEN StripLeft(Tail(text)) ELSE text
RECURSIVE StripRight(_)
StripRight(text) ==
    IF text # <<>> /\ IsSpaceChar(text[Len(text)])
    THEN StripRight(SubSeq(text, 1, Len(text) - 1)) ELSE text
Strip(text) == StripRight(StripLeft(text))

\* a fallback that forgets strip()
ExtractValueNoStrip(text) ==
    IF JoinedDigits(text) # <<>> THEN JoinedDigits(text) ELSE text

\* lines 91-92: value = ''.join(numbers) if numbers else ocr_result.strip()
ExtractValue(text) ==
    IF JoinedDigits(text) # <<>> THEN JoinedDigits(text) ELSE Strip(text)

RECURSIVE SumSeq(_)
SumSeq(q) == IF q = <<>> THEN 0 ELSE Head(q) + SumSeq(Tail(q))

\* a mean that counts the tokens of confidence zero as well
AvgConfidenceNonNegative(conf) ==
    LET confidences == SelectSeq(conf, LAMBDA c : c >= 0)
    IN  IF confidences # <<>>
        THEN [sum |-> SumSeq(confidences), count |-> Len(confidences)]
        ELSE [sum |-> 0, count |-> 1]

\* lines 85-86: the mean of the positive confidences as the fraction sum/count,
\* 0 when there is none
AvgConfidence(conf) ==
    LET confidences == SelectSeq(conf, LAMBDA c : c > 0)
    IN  IF confidences # <<>>
        THEN [sum |-> SumSeq(confidences), count |-> Len(confidences)]
        ELSE [sum |-> 0, count |-> 1]

\* a unique index that is not enforced
CanSaveAlways(task_id) == TRUE

\* Database.save_ocr_result can insert the row: task_id is unique (models.py:43)
CanSave(task_id) == \A i \in DOMAIN ocr_results : ocr_results[i].task_id # task_id

\* ocr_results.image_id references images.id (models.py:42)
ForeignKeyHolds(image_id) == image_id \in DOMAIN images

\* SQL NULL / Python None in a column or a result
Null == <<"NULL">>

ErrorRow(image_id, task_id, message) ==
    [ image_id |-> image_id, task_id |-> task_id, value |-> Null,
      raw_text |-> Null, confidence |-> [sum |-> 0, count |-> 1],
      status |-> "error", error_message |-> message ]

SuccessRow(image_id, task_id, out) ==
    [ image_id |-> image_id, task_id |-> task_id, value |-> ExtractValue(out.text),
      raw_text |-> Strip(out.text), confidence |-> AvgConfidence(out.conf),
      status |-> "success", error_message |-> "" ]

\* the dict the task returns on an error path
ErrorResult(message) == [status |-> "error", error |-> message]

\* lines 96-103 and 118: the dict the task returns after recognition;
\* ocr_result_id is 0 when the key was never set
SuccessResult(image_id, out, ocr_result_id) ==
    [ status |-> "success", image_id |-> image_id,
      value |-> ExtractValue(out.text), raw_text |-> Strip(out.text),
      confidence |-> AvgConfidence(out.conf), ocr_result_id |-> ocr_result_id ]

\* a failed save of the success row that is recorded as an error row
SaveFailureRecorded(rows, image_id, task_id) ==
    Append(rows, ErrorRow(image_id, task_id, ErrDatabase))

\* lines 119-121: the failed save of the success row is logged, nothing else
SaveFailureLogged(rows, image_id, task_id) == rows

\* the backend entry of task t becomes m
StoreMeta(t, m) ==
    [u \in (DOMAIN taskMeta) \cup {t} |-> IF u = t THEN m ELSE taskMeta[u]]

\* the task returned: Celery stores the return value with state SUCCESS
Returns(result) ==
    /\ taskMeta' = StoreMeta(worker.task_id, [state |-> "SUCCESS", result |-> result])
    /\ worker' = IdleWorker

\* an exception left the task: Celery stores it with state FAILURE
Raises(message) ==
    /\ taskMeta' = StoreMeta(worker.task_id,
                             [state |-> "FAILURE", result |-> ErrorResult(message)])
    /\ worker' = IdleWorker

\* the worker takes the next message of the queue and acknowledges it
\* (acks_late is not set in lines 21-30)
TakeJob ==
    /\ worker.pc = "idle"
    /\ queue # <<>>
    /\ worker' = [IdleWorker EXCEPT !.pc = "taken",
                                    !.task_id = Head(queue).task_id,
                                    !.image_id = Head(queue).image_id]
    /\ queue' = Tail(queue)
    /\ UNCHANGED <<clock, files, images, nextToken, nextTaskId, uploads,
                   interference, req, ocr_results, taskMeta>>
    /\ UNCHANGED callVars

\* task_track_started=True (line 27): the state STARTED is stored before the
\* task body runs
StartTask ==
    /\ worker.pc = "taken"
    /\ worker' = [worker EXCEPT !.pc = "busy"]
    /\ taskMeta' = StoreMeta(worker.task_id,
                             [state |-> "STARTED", result |-> ErrorResult("")])
    /\ UNCHANGED <<clock, files, images, queue, nextToken, nextTaskId, uploads,
                   interference, req, ocr_results>>
    /\ UNCHANGED callVars

\* ocr_task(self, image_id), lines 34-105 and 125-148: everything up to the
\* result dict, and the handlers that end the attempt early
RunTask ==
    /\ worker.pc = "busy"
    /\ LET image_id == worker.image_id
           task_id == worker.task_id
       IN  \/ \* line 46: Database() raises outside the try (database.py:33-34)
              /\ Raises(ErrMissingEnv)
              /\ UNCHANGED ocr_results
           \/ \* lines 55-60: no such row in table images
              /\ image_id \notin DOMAIN images
              /\ Returns(ErrorResult(ErrImageNotFound))
              /\ UNCHANGED ocr_results
           \/ \* lines 65-70: the row is there, the stored file is not
              /\ image_id \in DOMAIN images
              /\ ~ Exists(images[image_id].image_url)
              /\ Returns(ErrorResult(ErrFileNotFound))
              /\ UNCHANGED ocr_results
           \/ \* lines 75-105: recognition, confidence and value
              /\ image_id \in DOMAIN images
              /\ Exists(images[image_id].image_url)
              /\ \E out \in OcrOutputs :
                   worker' = [worker EXCEPT !.pc = "recognised", !.out = out]
              /\ UNCHANGED <<ocr_results, taskMeta>>
           \/ \* lines 125-145: a statement of the try block raises: the
              \* connection or the lookup (lines 50-53), or, with row and file
              \* found, the image decoder or the OCR engine (lines 75-82)
              /\ \E e \in Exceptions :
                   /\ e = ErrOcrFailed =>
                        /\ image_id \in DOMAIN images
                        /\ Exists(images[image_id].image_url)
                   /\ \/ /\ CanSave(task_id)
                         /\ ForeignKeyHolds(image_id)
                         /\ ocr_results' =
                              Append(ocr_results, ErrorRow(image_id, task_id, e))
                      \/ \* lines 139-140: saving the error raises too
                         UNCHANGED ocr_results
                   /\ Returns(ErrorResult(e))
    /\ UNCHANGED <<clock, files, images, queue, nextToken, nextTaskId, uploads,
                   interference, req>>
    /\ UNCHANGED callVars

\* ocr_task, lines 107-123: the success row is saved and the result returned
SaveResult ==
    /\ worker.pc = "recognised"
    /\ LET image_id == worker.image_id
           task_id == worker.task_id
           out == worker.out
       IN  \/ /\ CanSave(task_id)
              /\ ocr_results' = Append(ocr_results, SuccessRow(image_id, task_id, out))
              /\ Returns(SuccessResult(image_id, out, Len(ocr_results) + 1))
           \/ \* lines 119-121: the save raises
              /\ ocr_results' = SaveFailureLogged(ocr_results, image_id, task_id)
              /\ Returns(SuccessResult(image_id, out, 0))
    /\ UNCHANGED <<clock, files, images, queue, nextToken, nextTaskId, uploads,
                   interference, req>>
    /\ UNCHANGED callVars

\* The worker process dies (killed, out of memory, power loss) with a job in
\* hand and is started again. The job had written no row, or had just written
\* its success row and not returned.
\* The acknowledged message is gone, or the broker delivers it once more.
Crash ==
    /\ worker.pc \in {"taken", "busy", "recognised"}
    /\ worker' = IdleWorker
    /\ \/ UNCHANGED ocr_results
       \/ /\ worker.pc = "recognised"
          /\ CanSave(worker.task_id)
          /\ ocr_results' = Append(ocr_results,
                  SuccessRow(worker.image_id, worker.task_id, worker.out))
    /\ \/ UNCHANGED queue
       \/ queue' = Append(queue, [task_id |-> worker.task_id,
                                  image_id |-> worker.image_id])
    /\ UNCHANGED <<clock, files, images, nextToken, nextTaskId, uploads,
                   interference, req, taskMeta>>
    /\ UNCHANGED callVars

\* a task message for some image id arrives from another producer: the task is
\* registered by name and takes any integer (a manual re-run, a stale message)
SendTask(image_id) ==
    /\ nextTaskId <= MaxTasks
    /\ queue' = Append(queue, [task_id |-> nextTaskId, image_id |-> image_id])
    /\ nextTaskId' = nextTaskId + 1
    /\ UNCHANGED <<clock, files, images, nextToken, uploads, interference, req>>
    /\ UNCHANGED <<workerVars, callVars>>

\* get_task_status, main.py:419-454
get_task_status(task_id) ==
    IF task_id \notin DOMAIN taskMeta THEN "pending"
    ELSE IF taskMeta[task_id].state = "SUCCESS" THEN "success"
    ELSE IF taskMeta[task_id].state = "FAILURE" THEN "failure"
    ELSE "started"

----------------------------------------------------------------------------
(* Calls of the pure functions on their own *)

MaxTokens == 3
MaxTextLen == 4
MaxNameLen == 3

\* sequences over S of length at most n
SeqsUpTo(S, n) == UNION { [1..k -> S] : k \in 0..n }

\* token confidences as the engine reports them: -1 for a box without text
Confidences == {-1, 0, 80, 90, 100}
ConfLists == SeqsUpTo(Confidences, MaxTokens)

ReadingText ==
    <<"R", "e", "a", "d", "i", "n", "g", ":", " ", "0", "1", "2", "3", " ", "m", "3">>
TextChars == {"0", "1", "a", " ", "-"}
Texts == SeqsUpTo(TextChars, MaxTextLen) \cup {ReadingText}

NameChars == {"a", "B", "7", ".", "/", " ", "\t", "\n", "@", "_", "-", "\\"}
Names == SeqsUpTo(NameChars, MaxNameLen) \cup (FileNames \ {<<>>})

NoCall == [f |-> "none", x |-> <<>>]
NotCalled == [done |-> FALSE, value |-> <<>>]
CallReturned(value) == [done |-> TRUE, value |-> value]

Calls ==
    { [f |-> "avg_confidence", x |-> c] : c \in ConfLists }
        \cup { [f |-> "extract_value", x |-> t] : t \in Texts }
        \cup { [f |-> "sanitize_filename", x |-> n] : n \in Names }

\* worker.py:85-86 applied to the token confidences
CallAvgConfidence ==
    /\ arg.f = "avg_confidence"
    /\ ~ ret.done
    /\ ret' = CallReturned(AvgConfidence(arg.x))
    /\ UNCHANGED <<clock, files, images, queue, nextToken, nextTaskId, uploads,
                   interference, req, arg>>
    /\ UNCHANGED workerVars

\* worker.py:91-92 applied to the recognised text
CallExtractValue ==
    /\ arg.f = "extract_value"
    /\ ~ ret.done
    /\ ret' = CallReturned(ExtractValue(arg.x))
    /\ UNCHANGED <<clock, files, images, queue, nextToken, nextTaskId, uploads,
                   interference, req, arg>>
    /\ UNCHANGED workerVars

\* main.py:57-65 applied to a filename
CallSanitize ==
    /\ arg.f = "sanitize_filename"
    /\ ~ ret.done
    /\ ret' = CallReturned(sanitize_filename(arg.x))
    /\ UNCHANGED <<clock, files, images, queue, nextToken, nextTaskId, uploads,
                   interference, req, arg>>
    /\ UNCHANGED workerVars

----------------------------------------------------------------------------

Init ==
    /\ clock = 0
    /\ files = <<>>
    /\ images = <<>>
    /\ queue = <<>>
    /\ nextToken = 1
    /\ nextTaskId = 1
    /\ uploads = 0
    /\ interference = FALSE
    /\ req = [r \in Clients |-> IdleReq]
    /\ worker = IdleWorker
    /\ ocr_results = <<>>
    /\ taskMeta = <<>>
    /\ arg = NoCall
    /\ ret = NotCalled

\* one client issuing upload requests one after the other, any input, all of
\* them within the same second
Next ==
    \/ \E filename \in FileNames, waterMeterId \in MeterIds :
         StartUpload("c1", filename, waterMeterId)
    \/ CheckMeter("c1")
    \/ OpenFile("c1")
    \/ \E body \in Bodies : ReadChunk("c1", body)
    \/ SniffContent("c1")
    \/ InsertImage("c1")
    \/ EnqueueTask("c1")
    \/ Return("c1")

Spec == Init /\ [][Next]_vars

\* a smaller choice of inputs: one that passes each gate and one that fails it
SomeFileNames == { <<>>, <<"a", ".", "j", "p", "g">>, <<"a", ".", "t", "x", "t">> }
SomeMeterIds == {7, 999}
SomeBodies == { Body(JpegHead, 12, FALSE), Body(ZeroHead, 12, FALSE),
                Body(JpegHead, CHUNK_SIZE, TRUE) }

\* two clients whose requests interleave step by step
NextConc ==
    \/ \E r \in Clients, filename \in SomeFileNames, waterMeterId \in SomeMeterIds :
         StartUpload(r, filename, waterMeterId)
    \/ \E r \in Clients : CheckMeter(r)
    \/ \E r \in Clients : OpenFile(r)
    \/ \E r \in Clients, body \in SomeBodies : ReadChunk(r, body)
    \/ \E r \in Clients : SniffContent(r)
    \/ \E r \in Clients : InsertImage(r)
    \/ \E r \in Clients : EnqueueTask(r)
    \/ \E r \in Clients : Return(r)
    \/ Tick

SpecConc == Init /\ [][NextConc]_vars

\* one uploading client, the worker, and other producers of OCR tasks
NextWorker ==
    \/ \E filename \in SomeFileNames, waterMeterId \in SomeMeterIds :
         StartUpload("c1", filename, waterMeterId)
    \/ CheckMeter("c1")
    \/ OpenFile("c1")
    \/ \E body \in SomeBodies : ReadChunk("c1", body)
    \/ SniffContent("c1")
    \/ InsertImage("c1")
    \/ EnqueueTask("c1")
    \/ Return("c1")
    \/ TakeJob
    \/ StartTask
    \/ RunTask
    \/ SaveResult
    \/ \E image_id \in 1..(MaxUploads + 1) : SendTask(image_id)

SpecWorker == Init /\ [][NextWorker]_vars

\* the worker process keeps running: a step of it that can be taken is taken
SpecWorkerFair ==
    /\ SpecWorker
    /\ WF_vars(TakeJob) /\ WF_vars(StartTask) /\ WF_vars(RunTask)
    /\ WF_vars(SaveResult)

\* The worker side on its own. One upload for meter 7 has been handled
\* before: it returned 200 with its job queued, or its send_task failed after
\* the row was committed (main.py:263-270), so that the row has no file and no
\* job. The worker may die with a job in hand, the broker may deliver a job
\* again, and tasks are sent again for the same image or for a missing one.
UploadedPath == NewFilename(7, 0, 1, <<"j", "p", "g">>)

InitCrash ==
    /\ clock = 0
    /\ images = <<[water_meter_id |-> 7, image_url |-> UploadedPath]>>
    /\ \/ /\ files = [q \in {UploadedPath} |-> [size |-> 12, owner |-> 1]]
          /\ queue = <<[task_id |-> 1, image_id |-> 1]>>
          /\ nextTaskId = 2
       \/ /\ files = <<>>
          /\ queue = <<>>
          /\ nextTaskId = 1
    /\ nextToken = 2
    /\ uploads = 1
    /\ interference = FALSE
    /\ req = [r \in Clients |-> IdleReq]
    /\ worker = IdleWorker
    /\ ocr_results = <<>>
    /\ taskMeta = <<>>
    /\ arg = NoCall
    /\ ret = NotCalled

NextCrash ==
    \/ TakeJob
    \/ StartTask
    \/ RunTask
    \/ SaveResult
    \/ Crash
    \/ \E image_id \in 1..2 : SendTask(image_id)

SpecCrash == InitCrash /\ [][NextCrash]_vars

\* one call of a pure function on an argument drawn from the input sets
InitCalls ==
    /\ clock = 0
    /\ files = <<>>
    /\ images = <<>>
    /\ queue = <<>>
    /\ nextToken = 1
    /\ nextTaskId = 1
    /\ uploads = 0
    /\ interference = FALSE
    /\ req = [r \in Clients |-> IdleReq]
    /\ worker = IdleWorker
    /\ ocr_results = <<>>
    /\ taskMeta = <<>>
    /\ arg \in Calls
    /\ ret = NotCalled

NextCalls ==
    \/ CallAvgConfidence
    \/ CallExtractValue
    \/ CallSanitize

SpecCalls == InitCalls /\ [][NextCalls]_vars

----------------------------------------------------------------------------
(* Properties of the upload handler *)

Returned(r) == req[r].pc = "done"
Failed(r) == Returned(r) /\ req[r].response.status # 200
Succeeded(r) == Returned(r) /\ req[r].response.status = 200

\* files in the upload directory that request r created
FilesOf(r) == { p \in DOMAIN files : files[p].owner = req[r].id }
\* rows of table images that reference path p
RowsFor(p) == { i \in DOMAIN images : images[i].image_url = p }
\* queued jobs for image id
JobsFor(id) == { j \in DOMAIN queue : queue[j].image_id = id }

Quiescent == \A r \in Clients : req[r].pc \in {"idle", "done"}

\* C1: once an upload has returned an error response, no file exists at its
\* generated stored path, and the upload directory holds no file that the
\* request created.
C1_NoOrphanAfterError ==
    \A r \in Clients :
        Failed(r) =>
            /\ (req[r].file_path # NoPath => ~ Exists(req[r].file_path))
            /\ FilesOf(r) = {}

\* an oversize upload was aborted after chunks had been written to its file
C1_Witness ==
    \E r \in Clients :
        /\ Failed(r)
        /\ req[r].response.detail = DetailTooLarge
        /\ req[r].file_path # NoPath
        /\ req[r].file_size > MAX_FILE_SIZE

\* C2: whenever no upload is in flight, the stored paths of the Image rows are
\* exactly the paths of the files in the upload directory.
C2_RowIffFile ==
    Quiescent =>
        { images[i].image_url : i \in DOMAIN images } = DOMAIN files

\* C3: a request whose row was inserted and whose enqueue failed reports the
\* failure and leaves both the Image row and the stored file in place.
C3_EnqueueFailureKeepsFile ==
    \A r \in Clients :
        (Returned(r) /\ req[r].image_id # 0 /\ req[r].task_id = 0) =>
            /\ req[r].response.status # 200
            /\ RowsFor(req[r].file_path) = {req[r].image_id}
            /\ Exists(req[r].file_path)

\* C4: after a 200 response the file exists at the returned image_url, exactly
\* one Image row references that path and it is the row with the returned
\* image_id, exactly one job carries that image_id and it is the returned
\* ocr_task_id; and a job in the queue always refers to a committed row.
C4_SuccessIsComplete ==
    /\ \A r \in Clients :
         Succeeded(r) =>
            /\ req[r].response.detail = OkMessage
            /\ Exists(req[r].file_path)
            /\ RowsFor(req[r].file_path) = {req[r].image_id}
            /\ Cardinality(JobsFor(req[r].image_id)) = 1
            /\ \A j \in JobsFor(req[r].image_id) : queue[j].task_id = req[r].task_id
    /\ \A j \in DOMAIN queue : queue[j].image_id \in DOMAIN images

\* a second successful upload, with the first one's row and job already there
C4_Witness ==
    \E r \in Clients :
        /\ Succeeded(r)
        /\ req[r].image_id = 2
        /\ Len(queue) = 2

ActiveMeter(id) == \E m \in WaterMeters : m.id = id /\ m.is_active
PassesNameGates(r) ==
    /\ req[r].filename # <<>>
    /\ get_file_extension(sanitize_filename(req[r].filename)) \in ALLOWED_EXTENSIONS
NothingCreated(r) ==
    /\ req[r].file_path = NoPath
    /\ FilesOf(r) = {}
    /\ req[r].image_id = 0
    /\ req[r].task_id = 0

\* C5 as stated: every upload for a meter that is unknown or inactive is
\* answered with 404 'not found' and creates no file, row or job.
C5_AsStated ==
    \A r \in Clients :
        (Returned(r) /\ ~ ActiveMeter(req[r].waterMeterId)) =>
            /\ req[r].response = ErrorResponse(404, DetailNoMeter)
            /\ NothingCreated(r)

\* C5 (amended): an upload with a non-empty filename of an allowed extension
\* for a meter that is unknown or inactive is answered with 404 'not found',
\* or with 500 when the lookup query itself fails, and in both cases creates
\* no file, no Image row and no job.
C5_UnknownMeterRejected ==
    \A r \in Clients :
        (Returned(r) /\ PassesNameGates(r) /\ ~ ActiveMeter(req[r].waterMeterId)) =>
            /\ \/ req[r].response = ErrorResponse(404, DetailNoMeter)
               \/ req[r].response = ErrorResponse(500, DetailUnhandled)
            /\ NothingCreated(r)
            /\ \A i \in DOMAIN images : images[i].water_meter_id # req[r].waterMeterId

\* an upload of a .jpg for the deactivated meter was answered with 404
C5_Witness ==
    \E r \in Clients :
        /\ Returned(r)
        /\ PassesNameGates(r)
        /\ req[r].waterMeterId = 8
        /\ req[r].response.status = 404

\* C6: an upload that has a sanitized filename (its filename is not empty, so
\* line 152 is reached) and whose sanitized filename has no extension, or an
\* extension outside {jpeg, jpg, png} after lower-casing, is answered with 400
\* 'Invalid file format' with no meter lookup made and no file opened, whatever
\* the meter; a filename whose extension is in the set, in any letter case, is
\* never answered with 'Invalid file format'.
C6_ExtensionGate ==
    \A r \in Clients :
        (req[r].pc # "idle" /\ req[r].filename # <<>>) =>
            IF PassesNameGates(r)
            THEN req[r].response.detail # DetailBadFormat
            ELSE /\ req[r].response = ErrorResponse(400, DetailBadFormat)
                 /\ Returned(r)
                 /\ ~ req[r].meter_checked
                 /\ NothingCreated(r)

\* a file without extension for an unknown meter was answered with 400
C6_Witness ==
    \E r \in Clients :
        /\ Returned(r)
        /\ req[r].filename = <<"a", ".", "j", "p", "g", "/", "x">>
        /\ req[r].waterMeterId = 999
        /\ req[r].response.detail = DetailBadFormat

\* the signature as the claim states it, on the retained first chunk
GoodSignature(c) ==
    /\ c.len >= 12
    /\ \/ (c.head[1] = 255 /\ c.head[2] = 216 /\ c.head[3] = 255)
       \/ ( c.head[1] = 137 /\ c.head[2] = 80 /\ c.head[3] = 78 /\ c.head[4] = 71
            /\ c.head[5] = 13 /\ c.head[6] = 10 /\ c.head[7] = 26 /\ c.head[8] = 10 )
PassedSniff(r) ==
    \/ req[r].pc \in {"insert", "enqueue"}
    \/ Returned(r) /\ req[r].response.detail \in {OkMessage, DetailDbFailed}
RejectedBySniff(r) == Returned(r) /\ req[r].response.detail = DetailBadContent

\* C7: an upload that reaches the signature gate passes it exactly when its
\* first chunk has at least 12 bytes and starts with FF D8 FF or with the PNG
\* signature, whatever its extension; otherwise it is answered with 400 after
\* the whole stream was consumed, its file is gone and it has no row and no job.
C7_SignatureGate ==
    \A r \in Clients :
        /\ PassedSniff(r) => GoodSignature(req[r].first_chunk)
        /\ RejectedBySniff(r) =>
             /\ ~ GoodSignature(req[r].first_chunk)
             /\ req[r].response.status = 400
             /\ PassesNameGates(r)
             /\ req[r].stream.started /\ req[r].stream.left = 0
             /\ ~ Exists(req[r].file_path)
             /\ FilesOf(r) = {}
             /\ req[r].image_id = 0
             /\ req[r].task_id = 0

\* a .jpg upload of 12 zero bytes was rejected by the signature gate
C7_Witness ==
    \E r \in Clients :
        /\ RejectedBySniff(r)
        /\ req[r].first_chunk = [len |-> 12, head |-> ZeroHead]
        /\ req[r].extension = <<"j", "p", "g">>

\* C8: no stored file ever holds more than MAX_FILE_SIZE + CHUNK_SIZE bytes,
\* and a request whose cumulative size exceeds MAX_FILE_SIZE has been aborted
\* with 400 by the very chunk that crossed the limit, endless stream or not.
C8_SizeBoundedWhileStreaming ==
    /\ \A p \in DOMAIN files : files[p].size <= MAX_FILE_SIZE + CHUNK_SIZE
    /\ \A r \in Clients :
         /\ req[r].file_size <= MAX_FILE_SIZE + CHUNK_SIZE
         /\ req[r].file_size > MAX_FILE_SIZE =>
              /\ Returned(r)
              /\ req[r].response = ErrorResponse(400, DetailTooLarge)
              /\ ~ Exists(req[r].file_path)

\* an endless stream was cut off
C8_Witness ==
    \E r \in Clients :
        /\ Returned(r)
        /\ req[r].stream.endless
        /\ req[r].response.detail = DetailTooLarge
        /\ req[r].file_size = MAX_FILE_SIZE + CHUNK_SIZE

\* C9: requests that interleave, also for the same meter in the same second,
\* have distinct stored paths, Image rows have distinct paths, and no request
\* ever opened, wrote or unlinked a file created by another request.
C9_DistinctNames ==
    /\ ~ interference
    /\ \A r1, r2 \in Clients :
         (r1 # r2 /\ req[r1].file_path # NoPath /\ req[r2].file_path # NoPath) =>
            req[r1].file_path # req[r2].file_path
    /\ \A i, j \in DOMAIN images : i # j => images[i].image_url # images[j].image_url

\* two uploads for meter 7, named within the same second, both succeeded
C9_Witness ==
    \E r1, r2 \in Clients :
        /\ r1 # r2
        /\ Succeeded(r1) /\ Succeeded(r2)
        /\ req[r1].waterMeterId = req[r2].waterMeterId
        /\ req[r1].file_path[2] = req[r2].file_path[2]
        /\ Len(images) = 2

----------------------------------------------------------------------------
(* Properties of the worker *)

\* tasks that returned through the given early error path
ReturnedWith(message) ==
    { t \in DOMAIN taskMeta :
        taskMeta[t].state = "SUCCESS" /\ taskMeta[t].result = ErrorResult(message) }
HasErrorRow(t) ==
    \E i \in DOMAIN ocr_results :
        ocr_results[i].task_id = t /\ ocr_results[i].status = "error"

\* C10: a job whose Image row is absent, or whose stored file is missing, has
\* left an OCRResult row with status=error under its job id once it returned.
C10_MissingImageRecorded ==
    \A t \in ReturnedWith(ErrImageNotFound) \cup ReturnedWith(ErrFileNotFound) :
        HasErrorRow(t)

\* rows of table ocr_results written under task id t
ResultRows(t) == { i \in DOMAIN ocr_results : ocr_results[i].task_id = t }

\* the attempt of task t ended in the handler of lines 125-145 with message e
CaughtException(t, e) ==
    /\ t \in DOMAIN taskMeta
    /\ taskMeta[t].state \in {"SUCCESS", "FAILURE"}
    /\ taskMeta[t].result = ErrorResult(e)

\* C11: a job attempt in which a step from image lookup to value derivation
\* raised has written exactly one OCRResult row for its job id, with
\* status=error, a null value and the exception's message, and the status
\* query for that job id answers 'failure', not 'success'.
C11_ExceptionReportedAsFailure ==
    \A t \in DOMAIN taskMeta : \A e \in Exceptions :
        CaughtException(t, e) =>
            /\ Cardinality(ResultRows(t)) = 1
            /\ \A i \in ResultRows(t) :
                 /\ ocr_results[i].status = "error"
                 /\ ocr_results[i].value = Null
                 /\ ocr_results[i].error_message = e
            /\ get_task_status(t) = "failure"

\* the attempt in hand returned in this step, after recognition had succeeded
ReturnedAfterRecognition ==
    /\ worker.pc = "recognised"
    /\ worker'.pc = "idle"
    /\ taskMeta' # taskMeta

\* this step wrote the success row of the attempt in hand
WroteSuccessRow ==
    ocr_results' =
        Append(ocr_results, SuccessRow(worker.image_id, worker.task_id, worker.out))

\* C12: when recognition succeeded and the success row was not written, the
\* attempt still returns the in-memory result (status 'success', the value,
\* the raw text and the confidence that were computed), the status query
\* answers 'success', the job is not put back on the queue, and the attempt
\* writes no OCRResult row of either status.
C12_SaveFailureKeepsResult ==
    [][ (ReturnedAfterRecognition /\ ~ WroteSuccessRow) =>
            /\ taskMeta'[worker.task_id] =
                 [ state |-> "SUCCESS",
                   result |-> [ status |-> "success",
                                image_id |-> worker.image_id,
                                value |-> ExtractValue(worker.out.text),
                                raw_text |-> Strip(worker.out.text),
                                confidence |-> AvgConfidence(worker.out.conf),
                                ocr_result_id |-> 0 ] ]
            /\ ocr_results' = ocr_results
            /\ queue' = queue
            /\ \A j \in DOMAIN queue' : queue'[j].task_id # worker.task_id
      ]_vars

\* a task that returned its result although no row was written for it
C12_Witness ==
    \E t \in DOMAIN taskMeta :
        /\ taskMeta[t].state = "SUCCESS"
        /\ taskMeta[t].result.status = "success"
        /\ taskMeta[t].result.ocr_result_id = 0
        /\ taskMeta[t].result.value = <<"0", "1", "2", "3", "3">>
        /\ ResultRows(t) = {}
        /\ get_task_status(t) = "success"

InQueue(t) == \E j \in DOMAIN queue : queue[j].task_id = t
Finished(t) == t \in DOMAIN taskMeta /\ taskMeta[t].state \in {"SUCCESS", "FAILURE"}

\* C13: every job attempt that ended did so by returning a result to the
\* queue: no exception escaped the task, whichever step failed.
C13_NoExceptionEscapes ==
    \A t \in DOMAIN taskMeta : Finished(t) => taskMeta[t].state = "SUCCESS"

\* the other half of C13: a failing job blocks no later job, every job in the
\* queue is eventually processed (under SpecWorkerFair)
C13_LaterJobsProcessed ==
    \A t \in 1..MaxTasks : InQueue(t) ~> Finished(t)

\* task ids that were given to a job
Issued == 1..(nextTaskId - 1)
InHand(t) == worker.pc # "idle" /\ worker.task_id = t

\* C14: the status query answers 'pending' for a job that waits in the queue
\* and for a job that a worker is executing, and for an enqueued job it never
\* answers anything but 'pending', 'success' or 'failure'.
C14_PendingUntilTerminal ==
    \A t \in Issued :
        /\ (InQueue(t) \/ InHand(t)) => get_task_status(t) = "pending"
        /\ get_task_status(t) \in {"pending", "success", "failure"}

\* the worker that held job t died before it wrote an OCRResult row, and the
\* job was not delivered again: it is neither queued, nor in hand, nor ended
Lost(t) ==
    /\ t \in Issued
    /\ ~ InQueue(t) /\ ~ InHand(t) /\ ~ Finished(t)
    /\ ResultRows(t) = {}

\* a task id that was never given to any job
NeverIssued == nextTaskId

\* C15: the status answered for a job whose worker crashed before writing its
\* OCRResult row differs from the status answered for a job id that was never
\* issued and from the status answered for a job that waits in the queue.
C15_LostIsDistinguishable ==
    \A t \in Issued :
        Lost(t) =>
            /\ get_task_status(t) # get_task_status(NeverIssued)
            /\ \A q \in Issued :
                 InQueue(q) => get_task_status(t) # get_task_status(q)

----------------------------------------------------------------------------
(* Properties of the pure functions *)

Called(f) == arg.f = f /\ ret.done

\* the tokens of strictly positive confidence, and the sum of a list over a
\* set of its positions
PositiveTokens(conf) == { i \in DOMAIN conf : conf[i] > 0 }
RECURSIVE SumOver(_, _)
SumOver(conf, I) ==
    IF I = {} THEN 0
    ELSE LET i == CHOOSE j \in I : TRUE IN conf[i] + SumOver(conf, I \ {i})

\* C16: for every list of token confidences the aggregate confidence, the
\* fraction sum/count, equals the arithmetic mean of exactly the tokens whose
\* confidence is strictly greater than zero, and is 0 when there is none;
\* [90, 0, 80] gives 85 and the empty list gives 0.
C16_MeanOfPositive ==
    Called("avg_confidence") =>
        LET P == PositiveTokens(arg.x)
            r == ret.value
        IN  /\ r.count > 0
            /\ P = {} => r.sum = 0
            /\ P # {} => r.sum * Cardinality(P) = SumOver(arg.x, P) * r.count
            /\ arg.x = <<90, 0, 80>> => r.sum = 85 * r.count
            /\ arg.x = <<>> => r.sum = 0

\* the aggregate of [90, 0, 80] was computed, and it is 85
C16_Witness ==
    /\ Called("avg_confidence")
    /\ arg.x = <<90, 0, 80>>
    /\ ret.value.sum = 85 * ret.value.count

\* the maximal runs of decimal digits of a text, as pairs <<first, last>>
DigitRuns(text) ==
    { r \in (DOMAIN text) \X (DOMAIN text) :
        /\ r[1] <= r[2]
        /\ \A k \in r[1]..r[2] : text[k] \in DigitChars
        /\ r[1] = 1 \/ text[r[1] - 1] \notin DigitChars
        /\ r[2] = Len(text) \/ text[r[2] + 1] \notin DigitChars }

\* the runs of R joined in order of appearance
RECURSIVE JoinRuns(_, _)
JoinRuns(text, R) ==
    IF R = {} THEN <<>>
    ELSE LET r == CHOOSE q \in R : \A p \in R : q[1] <= p[1]
         IN  SubSeq(text, r[1], r[2]) \o JoinRuns(text, R \ {r})

\* the text without its leading and trailing whitespace
Trimmed(text) ==
    LET I == { i \in DOMAIN text : ~ IsSpaceChar(text[i]) }
    IN  IF I = {} THEN <<>>
        ELSE SubSeq(text, CHOOSE i \in I : \A j \in I : i <= j,
                          CHOOSE i \in I : \A j \in I : j <= i)

\* the rule of C17: the digit runs joined, digits only, or the trimmed text
ValueRule ==
    Called("extract_value") =>
        IF DigitRuns(arg.x) # {}
        THEN /\ ret.value = JoinRuns(arg.x, DigitRuns(arg.x))
             /\ \A i \in DOMAIN ret.value : ret.value[i] \in DigitChars
        ELSE ret.value = Trimmed(arg.x)

DashText == <<"-", "-", "-">>

IsSafeChar(c) == IsWordChar(c) \/ c = "-" \/ c = "."

\* C18: for every filename, sanitize returns a name made only of
\* alphanumerics, underscore, hyphen and dot, hence without path separator
\* and without whitespace; in a filename made of such characters and
\* whitespace, every whitespace character (space, tab, newline) is replaced
\* by an underscore and nothing else changes.
C18_SanitizeSafe ==
    Called("sanitize_filename") =>
        /\ \A i \in DOMAIN ret.value : IsSafeChar(ret.value[i])
        /\ (\A i \in DOMAIN arg.x : IsSafeChar(arg.x[i]) \/ IsSpaceChar(arg.x[i])) =>
               /\ Len(ret.value) = Len(arg.x)
               /\ \A i \in DOMAIN arg.x :
                    ret.value[i] = IF IsSpaceChar(arg.x[i]) THEN "_" ELSE arg.x[i]

----------------------------------------------------------------------------
(* Properties of the result table under crashes and redelivery *)

\* C19: no two OCRResult rows share a task_id, whatever was redelivered or
\* retried: a job id never has both a success row and an error row, and the
\* rows that reference one image carry pairwise distinct task ids.
C19_TaskIdUnique ==
    /\ \A i, j \in DOMAIN ocr_results :
         i # j => ocr_results[i].task_id # ocr_results[j].task_id
    /\ \A t \in Issued : Cardinality(ResultRows(t)) <= 1
    /\ \A t \in Issued :
         ~ \E i, j \in ResultRows(t) :
               ocr_results[i].status = "success" /\ ocr_results[j].status = "error"

\* a job wrote its success row, its worker died, the job was delivered again
\* and that attempt ended in the error handler; the image has a second row
\* under another task id
C19_Witness ==
    \E t \in Issued :
        /\ \E i \in ResultRows(t) : ocr_results[i].status = "success"
        /\ t \in DOMAIN taskMeta
        /\ taskMeta[t].state = "SUCCESS"
        /\ taskMeta[t].result.status = "error"
        /\ \E i, j \in DOMAIN ocr_results :
             /\ ocr_results[i].task_id = t
             /\ ocr_results[j].task_id # t
             /\ ocr_results[i].image_id = ocr_results[j].image_id

====
